---- MODULE Spec2Model ----
(***************************************************************************)
(* Model of main.py: the XPS service's four upload endpoints               *)
(* (/convert/{conversion_type}, /read-xps, /preview-all, /edit-xps), the   *)
(* helpers save_file and cleanup, and the single asyncio event loop the    *)
(* handlers run on.  A handler is cut into steps at its awaits and at its  *)
(* calls into the document backend (fitz); a step that does not end in an  *)
(* await keeps the event loop.                                             *)
(***************************************************************************)
EXTENDS Integers, Sequences, FiniteSets, TLC

\* ---------------------------------------------------------------- bounds
MaxPages == 2
MaxTextLen == 2

\* ------------------------------------------------------------ data model
Reqs == {"r1", "r2"}
NoReq == "none"
None == "None"
\* a variable that holds None or a value: <<>> or <<value>>
Nothing == <<>>
Some(v) == <<v>>
The(o) == o[1]
Chars == {"a", "b"}
REDACTED == "#"

RECURSIVE SeqsUpTo(_, _)
SeqsUpTo(S, n) ==
  IF n = 0 THEN {<<>>}
  ELSE LET shorter == SeqsUpTo(S, n - 1)
       IN  shorter \cup {Append(s, x) : s \in {t \in shorter : Len(t) = n - 1}, x \in S}

PageTexts == SeqsUpTo(Chars, MaxTextLen)
\* a page as fitz.open hands it out: its characters, nothing inserted yet
NewPage(t) == [text |-> t, inserts |-> <<>>]
Docs == SeqsUpTo({NewPage(t) : t \in PageTexts}, MaxPages)
\* documents of the two-request specification: the event loop is what it is about
ConcDocs == {d \in Docs : \A j \in 1..Len(d) : d[j].text = <<"a">>}

Endpoints == {"convert", "read", "preview", "edit"}
SUPPORTED_CONVERSIONS == <<"pdf", "images", "docx">>
ConversionTypes == {"pdf", "images", "docx", "txt"}
Supported(ct) == \E j \in 1..Len(SUPPORTED_CONVERSIONS) : SUPPORTED_CONVERSIONS[j] = ct

Filenames ==
  { <<"a", ".", "x", "p", "s">>, <<"a", ".", "X", "P", "S">>, <<"a", ".", "X", "p", "s">>,
    <<"r", ".", "t", "x", "t">>, <<"x", "p", "s">>, <<"a", ".", "x", "p", "s", "x">>, <<>> }
\* (old_text, new_text) of /edit-xps: an empty old_text, a new_text that contains
\* old_text, an old_text of more than one character
EditTexts == { [old |-> <<>>, new |-> <<"b">>],
               [old |-> <<"a">>, new |-> <<"a", "a">>],
               [old |-> <<"a", "b">>, new |-> <<"b">>] }

\* str.lower(), on the letters the file names use
LowerChar(c) ==
  CASE c = "X" -> "x" [] c = "P" -> "p" [] c = "S" -> "s" [] OTHER -> c
Lower(s) == [j \in 1..Len(s) |-> LowerChar(s[j])]
\* str.endswith()
EndsWith(s, suf) ==
  /\ Len(s) >= Len(suf)
  /\ SubSeq(s, Len(s) - Len(suf) + 1, Len(s)) = suf
XPS_EXT == <<".", "x", "p", "s">>
\* the extension compared without its dot
ValidName_NoDot(fn) == EndsWith(Lower(fn), <<"x", "p", "s">>)
ValidName(fn) == EndsWith(Lower(fn), XPS_EXT)

\* os.path.join(UPLOAD_FOLDER, f"{uuid.uuid4()}.xps"): one fresh name per call
InputPath(r) == <<"uploads", r>>
OutputPath(r) == <<"results", r>>

\* len(doc), and the truth value `if doc:` tests: Document defines __len__
\* (line 76 uses it) and no __bool__, so a document is true iff it has pages
len(d) == Len(d)
Truthy(o) == o # Nothing /\ len(The(o)) > 0

\* f"page_{i+1}.png" for the 0-based page index i
\* the entry named by the 0-based index itself
PageName_ZeroBased(i) == <<"page_", i, ".png">>
PageName(i) == <<"page_", i + 1, ".png">>

PAGE_BREAK_SEP == "\n\n--- Page Break ---\n\n"
FONT_SIZE == 11
BLACK == <<0, 0, 0>>

\* page.get_text(): what is left of the page's characters, then what was inserted
RECURSIVE Flatten(_)
Flatten(ss) == IF ss = <<>> THEN <<>> ELSE Head(ss) \o Flatten(Tail(ss))
get_text(page) ==
  SelectSeq(page.text, LAMBDA c : c # REDACTED)
    \o Flatten([j \in 1..Len(page.inserts) |-> page.inserts[j].text])

\* page.search_for(needle): the rectangles of the literal occurrences, left to
\* right, not overlapping; nothing for an empty needle
Rect(x0, n) == [x0 |-> x0, y0 |-> 0, x1 |-> x0 + n - 1, y1 |-> 1]
RECURSIVE SearchFrom(_, _, _)
SearchFrom(text, needle, from) ==
  IF needle = <<>> \/ from + Len(needle) - 1 > Len(text) THEN <<>>
  ELSE IF SubSeq(text, from, from + Len(needle) - 1) = needle
       THEN <<Rect(from, Len(needle))>> \o SearchFrom(text, needle, from + Len(needle))
       ELSE SearchFrom(text, needle, from + 1)
search_for(page, needle) == SearchFrom(page.text, needle, 1)

\* page.add_redact_annot(inst); page.apply_redactions(): the characters in the
\* rectangle are gone
Redact(page, inst) ==
  [page EXCEPT !.text =
     [j \in 1..Len(page.text) |->
        IF j >= inst.x0 /\ j <= inst.x1 THEN REDACTED ELSE page.text[j]]]
\* page.insert_text((inst.x0, inst.y0), new_text, fontsize=11, color=(0, 0, 0))
InsertText(page, point, txt, size, color) ==
  [page EXCEPT !.inserts =
     Append(@, [point |-> point, text |-> txt, fontsize |-> size, color |-> color])]

ErrorPrefix(ep) ==
  CASE ep = "convert" -> "Conversion failed: "
    [] ep = "read"    -> "Failed to read XPS: "
    [] ep = "preview" -> "Failed to generate preview: "
    [] ep = "edit"    -> "Failed to edit XPS: "

\* ----------------------------------------------------------------- state
VARIABLES
  pc,        \* where each request's handler stands
  req,       \* the request: endpoint, conversion_type, file.filename, old_text, new_text
  loop,      \* the request whose handler holds the event loop's thread, or NoReq
  uploads,   \* the files in UPLOAD_FOLDER
  results,   \* the files in RESULT_FOLDER, each with what was saved in it
  doc,       \* the handler's `doc`: None, or the pages of the opened document
  srcDoc,    \* the pages as fitz.open returned them
  opens,     \* calls of fitz.open
  closes,    \* calls of doc.close()
  i,         \* the page loop's index
  insts,     \* text_instances of the page being edited
  k,         \* how many of text_instances are done
  out,       \* the artifact being built: ZIP entries, word_doc, text_content
  log,       \* the backend calls /edit-xps has made
  err,       \* the exception a failed call raised
  resp       \* the response

vars == <<pc, req, loop, uploads, results, doc, srcDoc, opens, closes, i, insts, k,
          out, log, err, resp>>

NoRequest == [endpoint |-> None, conversion_type |-> None, filename |-> <<>>,
              old_text |-> <<>>, new_text |-> <<>>]

Init ==
  /\ pc = [r \in Reqs |-> "idle"]
  /\ req = [r \in Reqs |-> NoRequest]
  /\ loop = NoReq
  /\ uploads = {}
  /\ results = {}
  /\ doc = [r \in Reqs |-> Nothing]
  /\ srcDoc = [r \in Reqs |-> Nothing]
  /\ opens = [r \in Reqs |-> 0]
  /\ closes = [r \in Reqs |-> 0]
  /\ i = [r \in Reqs |-> 0]
  /\ insts = [r \in Reqs |-> <<>>]
  /\ k = [r \in Reqs |-> 0]
  /\ out = [r \in Reqs |-> <<>>]
  /\ log = [r \in Reqs |-> <<>>]
  /\ err = [r \in Reqs |-> None]
  /\ resp = [r \in Reqs |-> Nothing]

\* the event loop runs one handler at a time: a handler steps when the loop's
\* thread is free or already its own
Runnable(r) == loop \in {NoReq, r}

\* ------------------------------------------------------------- responses
HTTPException(status, detail) == [status |-> status, kind |-> "error", body |-> detail]
\* an exception no handler catches: the framework's own 500
InternalServerError == [status |-> 500, kind |-> "error", body |-> <<"Internal Server Error">>]
FileResponse(path, media, name) ==
  [status |-> 200, kind |-> "file", body |-> [path |-> path, media_type |-> media, filename |-> name]]
StreamingResponse(content, media, name) ==
  [status |-> 200, kind |-> "stream", body |-> [content |-> content, media_type |-> media, filename |-> name]]
JSONResponse(content) == [status |-> 200, kind |-> "json", body |-> content]

\* the inputs a specification draws from
AllInputs == [docs |-> Docs, names |-> Filenames, texts |-> EditTexts]
ConcInputs == [docs |-> ConcDocs, names |-> {<<"a", ".", "x", "p", "s">>, <<"r", ".", "t", "x", "t">>},
               texts |-> {[old |-> <<"a">>, new |-> <<"a", "a">>]}]

\* what each kind of step leaves alone
UNCHANGED_data == UNCHANGED <<req, doc, srcDoc, opens, closes, i, insts, k, out, log>>

\* ------------------------------------------------------------ operations
\* a client sends a request; its handler is scheduled on the event loop
Arrive(r, In) ==
  /\ pc[r] = "idle"
  /\ \E ep \in Endpoints, ct \in ConversionTypes, fn \in In.names, t \in In.texts :
       /\ ep = "convert" \/ ct = "pdf"
       /\ ep = "edit" \/ t = (CHOOSE x \in In.texts : TRUE)
       /\ req' = [req EXCEPT ![r] =
            [endpoint |-> ep,
             conversion_type |-> IF ep = "convert" THEN ct ELSE None,
             filename |-> fn,
             old_text |-> IF ep = "edit" THEN t.old ELSE <<>>,
             new_text |-> IF ep = "edit" THEN t.new ELSE <<>>]]
  /\ pc' = [pc EXCEPT ![r] = "validate"]
  /\ UNCHANGED <<loop, uploads, results, doc, srcDoc, opens, closes, i, insts, k, out, log, err, resp>>

\* the checks before save_file: the conversion type, then the file name
Validate(r) ==
  /\ pc[r] = "validate"
  /\ Runnable(r)
  /\ IF req[r].endpoint = "convert" /\ ~Supported(req[r].conversion_type)
     THEN /\ resp' = [resp EXCEPT ![r] =
                Some(HTTPException(400, <<"Unsupported conversion. Allowed: ", SUPPORTED_CONVERSIONS>>))]
          /\ pc' = [pc EXCEPT ![r] = "done"]
          /\ loop' = NoReq
     ELSE IF ~ValidName(req[r].filename)
     THEN /\ resp' = [resp EXCEPT ![r] = Some(HTTPException(400, <<"Only .xps files are allowed">>))]
          /\ pc' = [pc EXCEPT ![r] = "done"]
          /\ loop' = NoReq
     ELSE /\ pc' = [pc EXCEPT ![r] = "save_file"]
          /\ loop' = r
          /\ UNCHANGED resp
  /\ UNCHANGED <<uploads, results, err>>
  /\ UNCHANGED_data

\* save_file up to its await: open(input_path, "wb") creates the file, or raises;
\* save_file is called outside the handler's try
SaveFileOpen(r) ==
  /\ pc[r] = "save_file"
  /\ Runnable(r)
  /\ \/ /\ uploads' = uploads \cup {InputPath(r)}
        /\ pc' = [pc EXCEPT ![r] = "read_upload"]
        /\ UNCHANGED <<err, resp>>
     \/ /\ err' = [err EXCEPT ![r] = "cannot create file"]
        /\ resp' = [resp EXCEPT ![r] = Some(InternalServerError)]
        /\ pc' = [pc EXCEPT ![r] = "done"]
        /\ UNCHANGED uploads
  /\ loop' = NoReq
  /\ UNCHANGED results
  /\ UNCHANGED_data

\* save_file after its await: f.write(await file.read()) and the return, or the
\* read or the write raises and the with block only closes the file
SaveFileWrite(r) ==
  /\ pc[r] = "read_upload"
  /\ Runnable(r)
  /\ \/ /\ pc' = [pc EXCEPT ![r] = "open"]
        /\ loop' = r
        /\ UNCHANGED <<err, resp>>
     \/ /\ err' = [err EXCEPT ![r] = "cannot store upload"]
        /\ resp' = [resp EXCEPT ![r] = Some(InternalServerError)]
        /\ pc' = [pc EXCEPT ![r] = "done"]
        /\ loop' = NoReq
  /\ UNCHANGED <<uploads, results>>
  /\ UNCHANGED_data

\* except Exception as e: raise HTTPException(500, f"{prefix}{str(e)}")
Raise(r, e) ==
  /\ err' = [err EXCEPT ![r] = e]
  /\ resp' = [resp EXCEPT ![r] = Some(HTTPException(500, <<ErrorPrefix(req[r].endpoint), e>>))]
  /\ pc' = [pc EXCEPT ![r] = "finally"]
  /\ loop' = r

\* return <response>, from inside the try
Return(r, response) ==
  /\ resp' = [resp EXCEPT ![r] = Some(response)]
  /\ pc' = [pc EXCEPT ![r] = "finally"]
  /\ loop' = r
  /\ UNCHANGED err

\* the branch the handler takes once the document is open
AfterOpen(rq) ==
  CASE rq.endpoint = "read" -> "read_page"
    [] rq.endpoint = "preview" -> "zip_page"
    [] rq.endpoint = "edit" -> "edit_page"
    [] rq.endpoint = "convert" /\ rq.conversion_type = "pdf" -> "pdf_save"
    [] rq.endpoint = "convert" /\ rq.conversion_type = "images" -> "zip_page"
    [] rq.endpoint = "convert" /\ rq.conversion_type = "docx" -> "docx_page"

\* doc = fitz.open(input_path), on the event loop's thread
Open(r, In) ==
  /\ pc[r] = "open"
  /\ Runnable(r)
  /\ opens' = [opens EXCEPT ![r] = @ + 1]
  /\ \/ \E d \in In.docs :
          /\ doc' = [doc EXCEPT ![r] = Some(d)]
          /\ srcDoc' = [srcDoc EXCEPT ![r] = Some(d)]
          /\ pc' = [pc EXCEPT ![r] = AfterOpen(req[r])]
          /\ loop' = r
          /\ UNCHANGED <<err, resp>>
     \/ /\ Raise(r, "cannot open document")
        /\ UNCHANGED <<doc, srcDoc>>
  /\ UNCHANGED <<req, uploads, results, closes, i, insts, k, out, log>>

\* await asyncio.to_thread(doc.save, output_path): the handler leaves the loop
PdfSaveStart(r) ==
  /\ pc[r] = "pdf_save"
  /\ Runnable(r)
  /\ pc' = [pc EXCEPT ![r] = "pdf_thread"]
  /\ loop' = NoReq
  /\ UNCHANGED <<uploads, results, err, resp>>
  /\ UNCHANGED_data

\* doc.save(output_path) in the worker thread
PdfSaveThread(r) ==
  /\ pc[r] = "pdf_thread"
  /\ \/ /\ results' = results \cup {[path |-> OutputPath(r), content |-> The(doc[r])]}
        /\ UNCHANGED err
     \/ /\ err' = [err EXCEPT ![r] = "cannot save document"]
        /\ UNCHANGED results
  /\ pc' = [pc EXCEPT ![r] = "pdf_resume"]
  /\ UNCHANGED <<loop, uploads, resp>>
  /\ UNCHANGED_data

\* the handler resumes after the await: return FileResponse(...), or the except clause
PdfSaveResume(r) ==
  /\ pc[r] = "pdf_resume"
  /\ Runnable(r)
  /\ IF err[r] = None
     THEN Return(r, FileResponse(OutputPath(r), "application/pdf", <<r, ".", "pdf">>))
     ELSE Raise(r, err[r])
  /\ UNCHANGED <<uploads, results>>
  /\ UNCHANGED_data

\* one turn of `for i in range(len(doc))` in the images branch and in /preview-all:
\* load_page, get_pixmap, the PNG, zipf.writestr(f"page_{i+1}.png", ...)
ZipPage(r) ==
  /\ pc[r] = "zip_page"
  /\ Runnable(r)
  /\ i[r] < len(The(doc[r]))
  /\ \/ /\ out' = [out EXCEPT ![r] = Append(@, PageName(i[r]))]
        /\ i' = [i EXCEPT ![r] = @ + 1]
        /\ loop' = r
        /\ UNCHANGED <<pc, err, resp>>
     \/ /\ Raise(r, "cannot render page")
        /\ UNCHANGED <<out, i>>
  /\ UNCHANGED <<req, uploads, results, doc, srcDoc, opens, closes, insts, k, log>>

\* the loop is over: return StreamingResponse(zip_buffer, ...)
ZipReturn(r) ==
  /\ pc[r] = "zip_page"
  /\ Runnable(r)
  /\ i[r] = len(The(doc[r]))
  /\ Return(r, StreamingResponse(out[r], "application/zip",
                 IF req[r].endpoint = "convert" THEN "images.zip" ELSE "preview_pages.zip"))
  /\ UNCHANGED <<uploads, results>>
  /\ UNCHANGED_data

Paragraph(t) == [kind |-> "paragraph", text |-> t]
PageBreak == [kind |-> "page_break", text |-> <<>>]

\* text = doc.load_page(n).get_text(); word_doc.add_paragraph(text);
\* if n < len(doc) - 1: word_doc.add_page_break()
\* a page break after every paragraph, the last one too
DocxLoopBody_BreakAlways(word_doc, d, n) ==
  Append(Append(word_doc, Paragraph(get_text(d[n + 1]))), PageBreak)
DocxLoopBody(word_doc, d, n) ==
  IF n < len(d) - 1
  THEN Append(Append(word_doc, Paragraph(get_text(d[n + 1]))), PageBreak)
  ELSE Append(word_doc, Paragraph(get_text(d[n + 1])))

\* one turn of the docx branch's loop
DocxPage(r) ==
  /\ pc[r] = "docx_page"
  /\ Runnable(r)
  /\ i[r] < len(The(doc[r]))
  /\ \/ /\ out' = [out EXCEPT ![r] = DocxLoopBody(@, The(doc[r]), i[r])]
        /\ i' = [i EXCEPT ![r] = @ + 1]
        /\ loop' = r
        /\ UNCHANGED <<pc, err, resp>>
     \/ /\ Raise(r, "cannot read page")
        /\ UNCHANGED <<out, i>>
  /\ UNCHANGED <<req, uploads, results, doc, srcDoc, opens, closes, insts, k, log>>

\* word_doc.save(output_path); return FileResponse(...)
DocxSave(r) ==
  /\ pc[r] = "docx_page"
  /\ Runnable(r)
  /\ i[r] = len(The(doc[r]))
  /\ \/ /\ results' = results \cup {[path |-> OutputPath(r), content |-> out[r]]}
        /\ Return(r, FileResponse(OutputPath(r),
              "application/vnd.openxmlformats-officedocument.wordprocessingml.document",
              <<r, ".", "docx">>))
     \/ /\ Raise(r, "cannot save document")
        /\ UNCHANGED results
  /\ UNCHANGED uploads
  /\ UNCHANGED_data

\* text_content += page.get_text() + "\n\n--- Page Break ---\n\n", for page n of d
\* the separator only between pages
ReadLoopBody_Between(text_content, d, n) ==
  IF n < len(d) - 1
  THEN text_content \o get_text(d[n + 1]) \o <<PAGE_BREAK_SEP>>
  ELSE text_content \o get_text(d[n + 1])
ReadLoopBody(text_content, d, n) == text_content \o get_text(d[n + 1]) \o <<PAGE_BREAK_SEP>>

\* one turn of /read-xps's loop
ReadPage(r) ==
  /\ pc[r] = "read_page"
  /\ Runnable(r)
  /\ i[r] < len(The(doc[r]))
  /\ \/ /\ out' = [out EXCEPT ![r] = ReadLoopBody(@, The(doc[r]), i[r])]
        /\ i' = [i EXCEPT ![r] = @ + 1]
        /\ loop' = r
        /\ UNCHANGED <<pc, err, resp>>
     \/ /\ Raise(r, "cannot read page")
        /\ UNCHANGED <<out, i>>
  /\ UNCHANGED <<req, uploads, results, doc, srcDoc, opens, closes, insts, k, log>>

\* return JSONResponse({"metadata": ..., "page_count": len(doc), "text": text_content})
ReadReturn(r) ==
  /\ pc[r] = "read_page"
  /\ Runnable(r)
  /\ i[r] = len(The(doc[r]))
  /\ Return(r, JSONResponse([metadata |-> "doc.metadata",
                              page_count |-> len(The(doc[r])),
                              text |-> out[r]]))
  /\ UNCHANGED <<uploads, results>>
  /\ UNCHANGED_data

\* what the handler searches for: page.search_for(old_text)
\* the search given the replacement text
SearchArg_New(rq) == rq.new_text
SearchArg(rq) == rq.old_text
\* where the handler inserts: (inst.x0, inst.y0)
\* the insertion at the rectangle's other corner
Anchor_BottomRight(inst) == <<inst.x1, inst.y1>>
Anchor(inst) == <<inst.x0, inst.y0>>

\* /edit-xps, the outer loop: page = doc.load_page(page_num);
\* text_instances = page.search_for(old_text); a page without instances is done
EditPage(r) ==
  /\ pc[r] = "edit_page"
  /\ Runnable(r)
  /\ i[r] < len(The(doc[r]))
  /\ \/ LET found == search_for(The(doc[r])[i[r] + 1], SearchArg(req[r]))
        IN  /\ insts' = [insts EXCEPT ![r] = found]
            /\ k' = [k EXCEPT ![r] = 0]
            /\ log' = [log EXCEPT ![r] = Append(@, [op |-> "search_for", page |-> i[r]])]
            /\ IF found = <<>>
               THEN /\ i' = [i EXCEPT ![r] = @ + 1]
                    /\ UNCHANGED pc
               ELSE /\ pc' = [pc EXCEPT ![r] = "edit_inst"]
                    /\ UNCHANGED i
            /\ loop' = r
            /\ UNCHANGED <<err, resp>>
     \/ /\ Raise(r, "cannot search page")
        /\ UNCHANGED <<insts, k, log, i>>
  /\ UNCHANGED <<req, uploads, results, doc, srcDoc, opens, closes, out>>

\* /edit-xps, one turn of `for inst in text_instances`: add_redact_annot(inst),
\* apply_redactions(), insert_text((inst.x0, inst.y0), new_text, fontsize=11,
\* color=(0, 0, 0)); after the last instance the outer loop goes on
EditInst(r) ==
  /\ pc[r] = "edit_inst"
  /\ Runnable(r)
  /\ k[r] < Len(insts[r])
  /\ LET inst == insts[r][k[r] + 1]
         p == i[r] + 1
         redacted == Redact(The(doc[r])[p], inst)
         redactLog == <<[op |-> "add_redact_annot", page |-> i[r], rect |-> inst],
                        [op |-> "apply_redactions", page |-> i[r]]>>
     IN  \/ /\ doc' = [doc EXCEPT ![r] = Some([The(@) EXCEPT ![p] =
                         InsertText(redacted, Anchor(inst), req[r].new_text,
                                    FONT_SIZE, BLACK)])]
            /\ log' = [log EXCEPT ![r] = @ \o redactLog \o
                         <<[op |-> "insert_text", page |-> i[r], point |-> Anchor(inst),
                            text |-> req[r].new_text, fontsize |-> FONT_SIZE, color |-> BLACK]>>]
            /\ k' = [k EXCEPT ![r] = @ + 1]
            /\ IF k[r] + 1 = Len(insts[r])
               THEN /\ i' = [i EXCEPT ![r] = @ + 1]
                    /\ pc' = [pc EXCEPT ![r] = "edit_page"]
               ELSE UNCHANGED <<i, pc>>
            /\ loop' = r
            /\ UNCHANGED <<err, resp>>
         \/ /\ Raise(r, "cannot redact")
            /\ UNCHANGED <<doc, log, k, i>>
         \/ /\ Raise(r, "cannot insert text")
            /\ doc' = [doc EXCEPT ![r] = Some([The(@) EXCEPT ![p] = redacted])]
            /\ log' = [log EXCEPT ![r] = @ \o redactLog]
            /\ UNCHANGED <<k, i>>
  /\ UNCHANGED <<req, uploads, results, srcDoc, opens, closes, insts, out>>

\* /edit-xps after the loop: doc.save(output_path); return FileResponse(...)
EditSave(r) ==
  /\ pc[r] = "edit_page"
  /\ Runnable(r)
  /\ i[r] = len(The(doc[r]))
  /\ \/ /\ results' = results \cup {[path |-> OutputPath(r), content |-> The(doc[r])]}
        /\ log' = [log EXCEPT ![r] = Append(@, [op |-> "save", page |-> i[r]])]
        /\ Return(r, FileResponse(OutputPath(r), "application/pdf", <<"edited_", r, ".", "pdf">>))
     \/ /\ Raise(r, "cannot save document")
        /\ UNCHANGED <<results, log>>
  /\ UNCHANGED <<req, uploads, doc, srcDoc, opens, closes, i, insts, k, out>>

\* cleanup(file_path): if os.path.exists(file_path): os.remove(file_path)
cleanup(files, path) == files \ {path}

\* finally: if doc: doc.close(); cleanup(input_path); then the response goes out
Finally(r) ==
  /\ pc[r] = "finally"
  /\ Runnable(r)
  /\ closes' = [closes EXCEPT ![r] = IF Truthy(doc[r]) THEN @ + 1 ELSE @]
  /\ uploads' = cleanup(uploads, InputPath(r))
  /\ pc' = [pc EXCEPT ![r] = "done"]
  /\ loop' = NoReq
  /\ UNCHANGED <<req, results, doc, srcDoc, opens, i, insts, k, out, log, err, resp>>

\* ---------------------------------------------------------- specifications
Step(r, In) ==
  \/ Arrive(r, In)
  \/ Validate(r)
  \/ SaveFileOpen(r)
  \/ SaveFileWrite(r)
  \/ Open(r, In)
  \/ PdfSaveStart(r)
  \/ PdfSaveThread(r)
  \/ PdfSaveResume(r)
  \/ ZipPage(r)
  \/ ZipReturn(r)
  \/ DocxPage(r)
  \/ DocxSave(r)
  \/ ReadPage(r)
  \/ ReadReturn(r)
  \/ EditPage(r)
  \/ EditInst(r)
  \/ EditSave(r)
  \/ Finally(r)

\* one request at a time, over all the inputs
Next == Step("r1", AllInputs)
Spec == Init /\ [][Next]_vars

\* two requests in flight on the one event loop
NextConc == \E r \in Reqs : Step(r, ConcInputs)
SpecConc == Init /\ [][NextConc]_vars

\* ---------------------------------------------------------------- claims
Done(r) == pc[r] = "done"
Answered(r) == resp[r] # Nothing
Status(r) == The(resp[r]).status
Succeeded(r) == Done(r) /\ Answered(r) /\ Status(r) = 200
IsConvert(r, ct) == req[r].endpoint = "convert" /\ req[r].conversion_type = ct
\* the file name ends in ".xps" in some mix of cases, spelled out letter by letter
XpsNamed(fn) ==
  /\ Len(fn) >= 4
  /\ fn[Len(fn) - 3] = "."
  /\ fn[Len(fn) - 2] \in {"x", "X"}
  /\ fn[Len(fn) - 1] \in {"p", "P"}
  /\ fn[Len(fn)] \in {"s", "S"}
IsPrefix(s, t) == Len(s) <= Len(t) /\ s = SubSeq(t, 1, Len(s))
Count(s, Test(_)) == Cardinality({j \in 1..Len(s) : Test(s[j])})

\* C1: once a request has finished, whatever its outcome, the input file that
\* save_file allocated for it is no longer in the uploads area.
C1_InputFileRemoved == \A r \in Reqs : Done(r) => InputPath(r) \notin uploads

\* C2: a document that fitz.open opened, of any page count N >= 0, has been
\* closed exactly once when the request has finished (and never more than once
\* before); when open failed or was never reached, no close is attempted.
C2_ClosedExactlyOnce ==
  \A r \in Reqs :
    /\ closes[r] <= 1
    /\ doc[r] = Nothing => closes[r] = 0
    /\ Done(r) /\ doc[r] # Nothing => closes[r] = 1

\* C3: a request whose file name does not end in ".xps" (whatever the case of
\* the letters) ends with a 400 response as soon as it is validated, and
\* fitz.open is never called for it (nor is an input file written).
C3_BadNameRejected ==
  \A r \in Reqs :
    pc[r] \notin {"idle", "validate"} /\ ~XpsNamed(req[r].filename)
      => /\ Done(r)
         /\ Answered(r) /\ Status(r) = 400
         /\ opens[r] = 0
         /\ InputPath(r) \notin uploads
C3_Witness ==
  /\ Done("r1") /\ req["r1"].filename = <<"r", ".", "t", "x", "t">>
  /\ req["r1"].endpoint = "edit" /\ Answered("r1") /\ Status("r1") = 400

\* C4: while one request executes document-backend work (opening, rendering or
\* reading a page, searching, redacting, saving), every other request in flight
\* can take its next step.
BackendWork(r) ==
  \/ pc[r] = "pdf_thread"
  \/ /\ loop = r
     /\ \/ pc[r] \in {"open", "edit_inst"}
        \/ pc[r] \in {"zip_page", "read_page"} /\ i[r] < len(The(doc[r]))
        \/ pc[r] \in {"docx_page", "edit_page"}
InFlight(r) == pc[r] \notin {"idle", "done"}
C4_OthersProgress ==
  \A r \in Reqs, s \in Reqs :
    r # s /\ BackendWork(r) /\ InFlight(s) => ENABLED Step(s, ConcInputs)

\* C5: /convert/images and /preview-all answer an opened N-page document with a
\* ZIP of exactly N entries, the j-th written being page_j.png (j = 1..N), and
\* the archive under construction is always page_1.png .. page_i.png.
ZipRequest(r) == req[r].endpoint = "preview" \/ IsConvert(r, "images")
C5_ZipEntries ==
  \A r \in Reqs :
    ZipRequest(r) /\ doc[r] # Nothing =>
      /\ out[r] = [j \in 1..i[r] |-> <<"page_", j, ".png">>]
      /\ Succeeded(r) =>
           /\ Len(The(resp[r]).body.content) = Len(The(srcDoc[r]))
           /\ \A j \in 1..Len(The(srcDoc[r])) :
                The(resp[r]).body.content[j] = <<"page_", j, ".png">>
C5_Witness ==
  /\ Succeeded("r1") /\ IsConvert("r1", "images")
  /\ Len(The(srcDoc["r1"])) = 2
  /\ The(resp["r1"]).body.content = << <<"page_", 1, ".png">>, <<"page_", 2, ".png">> >>

\* C6: /read-xps answers an opened N-page document with page_count = N and a
\* text that is each page's text followed by the separator, N separators in
\* all, one after the last page too; empty for N = 0.
RECURSIVE PagesThenSeparators(_)
PagesThenSeparators(d) ==
  IF d = <<>> THEN <<>>
  ELSE PagesThenSeparators(SubSeq(d, 1, Len(d) - 1))
         \o d[Len(d)].text \o <<"\n\n--- Page Break ---\n\n">>
IsSeparator(c) == c = "\n\n--- Page Break ---\n\n"
C6_ReadText ==
  \A r \in Reqs :
    req[r].endpoint = "read" /\ Succeeded(r) =>
      LET body == The(resp[r]).body
          N == Len(The(srcDoc[r]))
      IN  /\ body.page_count = N
          /\ body.text = PagesThenSeparators(The(srcDoc[r]))
          /\ Count(body.text, IsSeparator) = N
          /\ N > 0 => body.text[Len(body.text)] = "\n\n--- Page Break ---\n\n"
          /\ N = 0 => body.text = <<>>
C6_Witness ==
  /\ req["r1"].endpoint = "read" /\ Succeeded("r1")
  /\ The(srcDoc["r1"]) = <<NewPage(<<"a">>), NewPage(<<>>)>>
  /\ The(resp["r1"]).body.text =
       <<"a", "\n\n--- Page Break ---\n\n", "\n\n--- Page Break ---\n\n">>

\* C7 as stated: /convert/docx builds N paragraphs and exactly N-1 page breaks.
IsParagraph(e) == e.kind = "paragraph"
IsPageBreak(e) == e.kind = "page_break"
PrefixOf(r) ==
  CASE req[r].endpoint = "convert" -> "Conversion failed: "
    [] req[r].endpoint = "read"    -> "Failed to read XPS: "
    [] req[r].endpoint = "preview" -> "Failed to generate preview: "
    [] req[r].endpoint = "edit"    -> "Failed to edit XPS: "
C8_FailureIs500WithPrefix ==
  \A r \in Reqs :
    Done(r) /\ err[r] # None =>
      /\ Answered(r)
      /\ Status(r) = 500
      /\ The(resp[r]).body = <<PrefixOf(r), err[r]>>

\* C9: in /edit-xps a page on which the search finds nothing is left untouched;
\* when old_text is empty or occurs on no page, nothing is redacted or inserted,
\* the request succeeds unless a backend call itself fails, and the saved PDF
\* has the source's page count and per-page text.
Occurs(text, needle) ==
  /\ needle # <<>>
  /\ \E j \in 1..Len(text) : j + Len(needle) - 1 <= Len(text)
                             /\ SubSeq(text, j, j + Len(needle) - 1) = needle
IsChange(e) == e.op \in {"add_redact_annot", "apply_redactions", "insert_text"}
InstanceOps(p, inst, new) ==
  << [op |-> "add_redact_annot", page |-> p, rect |-> inst],
     [op |-> "apply_redactions", page |-> p],
     [op |-> "insert_text", page |-> p, point |-> <<inst.x0, inst.y0>>, text |-> new,
      fontsize |-> 11, color |-> <<0, 0, 0>>] >>
PageOps(p, found, new) ==
  <<[op |-> "search_for", page |-> p]>>
    \o Flatten([j \in 1..Len(found) |-> InstanceOps(p, found[j], new)])
ExpectedLog(d, old, new) ==
  Flatten([p \in 1..Len(d) |-> PageOps(p - 1, search_for(d[p], old), new)])
    \o <<[op |-> "save", page |-> Len(d)]>>
RECURSIVE TotalInstances(_, _)
TotalInstances(d, old) ==
  IF d = <<>> THEN 0 ELSE Len(search_for(Head(d), old)) + TotalInstances(Tail(d), old)
IsRedact(e) == e.op = "add_redact_annot"
IsInsert(e) == e.op = "insert_text"
C10_EditOrder ==
  \A r \in Reqs :
    req[r].endpoint = "edit" /\ doc[r] # Nothing =>
      LET expected == ExpectedLog(The(srcDoc[r]), req[r].old_text, req[r].new_text)
      IN  /\ IsPrefix(log[r], expected)
          /\ Succeeded(r) =>
               /\ log[r] = expected
               /\ Count(log[r], IsRedact) = TotalInstances(The(srcDoc[r]), req[r].old_text)
               /\ Count(log[r], IsInsert) = TotalInstances(The(srcDoc[r]), req[r].old_text)
C10_Witness ==
  /\ req["r1"].endpoint = "edit" /\ Succeeded("r1")
  /\ req["r1"].old_text = <<"a">> /\ req["r1"].new_text = <<"a", "a">>
  /\ The(srcDoc["r1"]) = <<NewPage(<<"a", "a">>), NewPage(<<"b", "a">>)>>
  /\ Count(log["r1"], IsInsert) = 3

====
